---- MODULE Spec2Model ----
(***************************************************************************)
(* A model of photowatermark.py: the three functions of the module         *)
(* (get_capture_date, add_watermark, main), each as a state machine over   *)
(* the inputs the caller and the file system supply.                       *)
(*                                                                         *)
(* Strings that the code takes apart (file names, paths) are sequences of  *)
(* tokens: a file name is a sequence of tokens whose concatenation is the  *)
(* name ("a" "." "jpg"), a path is the sequence of its "/"-separated       *)
(* components, and an empty last component is a trailing "/".  No token    *)
(* but "." holds a dot and no token is a prefix of another, so two names   *)
(* are the same string exactly when they are the same sequence.            *)
(***************************************************************************)
EXTENDS Integers, Sequences, FiniteSets

VARIABLES
    entry,          \* which function of the module the caller invoked
    pc,             \* position in that function
    \* ---- main ----
    argv,           \* the command line: image_path, position, color, font_size
    files,          \* the file system: paths of regular files
    dirs,           \* the file system: paths of directories
    color,          \* main: the parsed colour
    image_files,    \* main: the candidate list
    output_dir,     \* main: the output directory
    idx,            \* main: index of the next element of image_files
    success_count,  \* main: the running success counter
    reads,          \* history: paths passed to get_capture_date, in order
    handed,         \* history: (input, output) pairs passed to add_watermark
    results,        \* history: what add_watermark returned, in order
    written,        \* history: paths img.save has written
    created,        \* history: directories os.makedirs has created
    report,         \* the printed success/total pair
    exit_code,      \* the process exit code, -1 while it runs
    \* ---- get_capture_date ----
    image,          \* the image: whether it opens, and its EXIF table
    scan,           \* index of the next entry of the table
    date_ret,       \* the returned date, <<>> for None
    warned,         \* whether the warning of line 29 was printed
    \* ---- add_watermark ----
    position,       \* the position argument
    img_size,       \* the decoded image's size
    img_mode,       \* the image's mode once normalised
    font,           \* the font in use
    text_width,     \* measured text width
    text_height,    \* measured text height
    x,              \* origin of the text
    y,
    rect,           \* the backing rectangle drawn
    returned        \* add_watermark's return value

mainVars == <<argv, files, dirs, color, image_files, output_dir, idx,
              success_count, reads, handed, results, written, created,
              report, exit_code>>

dateVars == <<image, scan, date_ret, warned>>

annotateVars == <<position, img_size, img_mode, font, text_width,
                  text_height, x, y, rect, returned>>

vars == <<entry, pc, mainVars, dateVars, annotateVars>>

\* the variables of a function that is not running
MainIdle ==
    /\ argv = <<>> /\ files = {} /\ dirs = {} /\ color = <<>>
    /\ image_files = <<>> /\ output_dir = <<>> /\ idx = 1
    /\ success_count = 0 /\ reads = <<>> /\ handed = <<>> /\ results = <<>>
    /\ written = {} /\ created = {} /\ report = <<>> /\ exit_code = -1

DateIdle ==
    /\ image = <<>> /\ scan = 1 /\ date_ret = <<>> /\ warned = FALSE

AnnotateIdle ==
    /\ position = "" /\ img_size = <<>> /\ img_mode = "" /\ font = ""
    /\ text_width = 0 /\ text_height = 0 /\ x = 0 /\ y = 0 /\ rect = <<>>
    /\ returned = "pending"

------------------------------------------------------------------------------
(* Bounds *)

\* the input directory holds at most this many entries
MaxEntries == 5

\* an EXIF table holds at most this many tags
MaxTags == 3

\* image width and height range over 1..MaxCanvas
MaxCanvas == 13

\* measured text width and height range over 0..MaxText
MaxText == 3

------------------------------------------------------------------------------
(* Strings: file names and paths *)

Front(s) == SubSeq(s, 1, Len(s) - 1)

Last(s) == s[Len(s)]

\* str.lower(), token by token
lower(tok) == IF tok = "PNG" THEN "png" ELSE tok

\* the tuple of suffixes of lines 128 and 130
image_exts == {"jpg", "jpeg", "png", "bmp"}

\* name.lower().endswith(('.jpg', '.jpeg', '.png', '.bmp'))
endswith_image_ext(name) ==
    /\ Len(name) >= 2
    /\ name[Len(name) - 1] = "."
    /\ lower(name[Len(name)]) \in image_exts

\* os.path.splitext: split at the last dot, unless only dots precede it
splitext(name) ==
    LET dots == {i \in 1..Len(name) : name[i] = "."}
    IN  IF dots = {}
        THEN <<name, <<>>>>
        ELSE LET d == CHOOSE i \in dots : \A j \in dots : j <= i
             IN  IF \E j \in 1..(d - 1) : name[j] # "."
                 THEN <<SubSeq(name, 1, d - 1), SubSeq(name, d, Len(name))>>
                 ELSE <<name, <<>>>>

\* os.path.join(p, name)
join(p, name) ==
    IF p = <<>> THEN <<name>>
    ELSE IF Last(p) = <<>> THEN Append(Front(p), name)
    ELSE Append(p, name)

\* os.path.dirname
dirname(p) == IF p = <<>> THEN <<>> ELSE Front(p)

\* os.path.basename
basename(p) == IF p = <<>> THEN <<>> ELSE Last(p)

\* the path the kernel resolves: a trailing "/" names the directory itself
resolve(p) == IF p # <<>> /\ Last(p) = <<>> THEN Front(p) ELSE p

\* os.path.isdir / os.path.isfile on the file system (F, D)
isdir(D, p) == resolve(p) \in D

isfile(F, p) == p \in F

------------------------------------------------------------------------------
(* The file system the run starts in *)

DirName == <<"d">>

\* what the input directory may hold: name and kind, in directory order;
\* the last two are a file that has the output directory's name and the
\* output directory an earlier run has left
EntryPool ==
    << [name |-> <<"a", ".", "jpg">>,               kind |-> "file"],
       [name |-> <<"a", ".", "PNG">>,               kind |-> "file"],
       [name |-> <<"b", ".", "bmp">>,               kind |-> "file"],
       [name |-> <<"a", "_watermark", ".", "jpg">>, kind |-> "file"],
       [name |-> <<".", "jpeg">>,                   kind |-> "file"],
       [name |-> <<"a", ".", "txt">>,               kind |-> "file"],
       [name |-> <<"c", ".", "jpg">>,               kind |-> "dir"],
       [name |-> <<"d", "_watermark">>,             kind |-> "file"],
       [name |-> <<"d", "_watermark">>,             kind |-> "dir"] >>

PoolIdx == DOMAIN EntryPool

\* the working directory holds the input directory and one image
TopFiles == { << <<"a", ".", "jpg">> >> }

\* the image_path arguments tried
PathArgs ==
    { <<DirName>>, <<DirName, <<>>>>, << <<"a", ".", "jpg">> >>,
      << <<"nosuch">> >>,
      <<DirName, <<"a", ".", "jpg">>>>, <<DirName, <<"a", ".", "txt">>>>,
      <<DirName, <<"c", ".", "jpg">>>> }

PositionChoices ==
    {"top_left", "top_right", "bottom_left", "bottom_right", "center"}

PositionArgs == {"bottom_right", "center", "middle"}

FontSizeArgs == {"30", "big"}

ColorArgs == { <<"0", "128", "255">>, <<"1", "2">>, <<"999", "0", "0">>,
               <<"x", "0", "0">> }

\* int(): the numerals the colour arguments use
int_of == [s \in {"0", "1", "2", "128", "255", "999"} |->
             CASE s = "0" -> 0 [] s = "1" -> 1 [] s = "2" -> 2
               [] s = "128" -> 128 [] s = "255" -> 255 [] s = "999" -> 999]

White == <<255, 255, 255>>

\* lines 114-120
parse_color(c) ==
    IF \E i \in DOMAIN c : c[i] \notin DOMAIN int_of
    THEN White
    ELSE LET t == [i \in DOMAIN c |-> int_of[c[i]]]
         IN  IF Len(t) # 3 \/ \E i \in DOMAIN t : t[i] < 0 \/ t[i] > 255
             THEN White
             ELSE t

\* os.listdir: the names directly under p
listdir(F, D, p) ==
    {basename(q) : q \in {r \in F \cup D : r # <<>> /\ Front(r) = resolve(p)}}

\* the filter of line 128
is_candidate(F, p, name) ==
    isfile(F, join(p, name)) /\ endswith_image_ext(name)

\* the names the loop of lines 126-129 keeps
candidate_names(F, D, p) == {n \in listdir(F, D, p) : is_candidate(F, p, n)}

\* position of a name in directory order
rank(name) ==
    IF \E i \in PoolIdx : EntryPool[i].name = name
    THEN CHOOSE i \in PoolIdx : EntryPool[i].name = name
    ELSE Len(EntryPool) + 1

RECURSIVE ascending(_)
ascending(S) ==
    IF S = {} THEN <<>>
    ELSE LET m == CHOOSE n \in S : \A o \in S : rank(n) <= rank(o)
         IN  <<m>> \o ascending(S \ {m})

reversed(s) == [i \in DOMAIN s |-> s[Len(s) + 1 - i]]

\* the orders os.listdir is taken to return a directory in
listing_orders(S) == {ascending(S), reversed(ascending(S))}

\* line 142
base_dir(imgs, image_path) ==
    IF Len(imgs) = 1 THEN dirname(imgs[1]) ELSE image_path

\* an output directory that is the input directory itself
output_dir_in_place(base) == base

\* line 143
output_dir_of(base) == join(base, basename(base) \o <<"_watermark">>)

\* an output name that drops the input's extension for ".jpg"
output_path_jpg(out, file_path) ==
    LET filename == basename(file_path)
        ne == splitext(filename)
    IN  join(out, ne[1] \o <<"_watermark", ".", "jpg">>)

\* lines 160-161
output_path_of(out, file_path) ==
    LET filename == basename(file_path)
        ne == splitext(filename)
    IN  join(out, ne[1] \o <<"_watermark">> \o ne[2])

\* img.save picks the encoder by the extension of the output path
save_format_known(output_path) ==
    LET ext == splitext(basename(output_path))[2]
    IN  Len(ext) = 2 /\ lower(ext[2]) \in image_exts

\* a run that does not check the candidate list
has_image_files_unchecked(imgs) == TRUE

\* line 137: the run goes on only with a non-empty candidate list
has_image_files(imgs) == imgs # <<>>

\* an add_watermark that lets the exception of a failing file escape
after_file_raise(ok) == IF ok THEN "loop" ELSE "crashed"

\* lines 95-97 and 164: add_watermark returns False instead of raising, so
\* the loop goes on to the next file whatever the outcome
after_file(ok) == "loop"

------------------------------------------------------------------------------
(* main *)

InitMain ==
    /\ entry = "main"
    /\ pc = "parse_args"
    /\ argv \in [image_path : PathArgs, position : PositionArgs,
                 color : ColorArgs, font_size : FontSizeArgs]
    /\ \E S \in SUBSET PoolIdx :
         /\ Cardinality(S) <= MaxEntries
         /\ \A i, j \in S : i # j => EntryPool[i].name # EntryPool[j].name
         /\ files = TopFiles \cup
                {<<DirName, EntryPool[i].name>> :
                    i \in {j \in S : EntryPool[j].kind = "file"}}
         /\ dirs = {<<>>, <<DirName>>} \cup
                {<<DirName, EntryPool[i].name>> :
                    i \in {j \in S : EntryPool[j].kind = "dir"}}
    /\ color = <<>>
    /\ image_files = <<>>
    /\ output_dir = <<>>
    /\ idx = 1
    /\ success_count = 0
    /\ reads = <<>>
    /\ handed = <<>>
    /\ results = <<>>
    /\ written = {}
    /\ created = {}
    /\ report = <<>>
    /\ exit_code = -1
    /\ DateIdle
    /\ AnnotateIdle

\* lines 102-120: argparse rejects a position outside the choices and a
\* font size that is no integer (exit code 2); the colour is defaulted
ParseArgs ==
    /\ entry = "main" /\ pc = "parse_args"
    /\ IF argv.position \notin PositionChoices \/ argv.font_size # "30"
       THEN /\ pc' = "exit"
            /\ exit_code' = 2
            /\ color' = color
       ELSE /\ pc' = "collect"
            /\ exit_code' = exit_code
            /\ color' = parse_color(argv.color)
    /\ UNCHANGED <<dateVars, annotateVars>>
    /\ UNCHANGED <<entry, argv, files, dirs, image_files, output_dir, idx,
                   success_count, reads, handed, results, written, created,
                   report>>

\* lines 122-135; os.listdir raises on a directory that cannot be read,
\* and the uncaught exception ends the process (code 1)
CollectFiles ==
    /\ entry = "main" /\ pc = "collect"
    /\ IF isdir(dirs, argv.image_path)
       THEN \/ /\ image_files' \in
                    { [i \in DOMAIN o |-> join(argv.image_path, o[i])] :
                        o \in listing_orders(
                                candidate_names(files, dirs, argv.image_path)) }
               /\ pc' = "collected"
               /\ exit_code' = exit_code
            \/ /\ image_files' = image_files
               /\ pc' = "crashed"
               /\ exit_code' = 1
       ELSE IF /\ isfile(files, argv.image_path)
               /\ endswith_image_ext(basename(argv.image_path))
       THEN /\ image_files' = <<argv.image_path>>
            /\ pc' = "collected"
            /\ exit_code' = exit_code
       ELSE /\ image_files' = image_files
            /\ pc' = "exit"
            /\ exit_code' = 1
    /\ UNCHANGED <<dateVars, annotateVars>>
    /\ UNCHANGED <<entry, argv, files, dirs, color, output_dir, idx,
                   success_count, reads, handed, results, written, created,
                   report>>

\* lines 137-139
NoImageFiles ==
    /\ entry = "main" /\ pc = "collected"
    /\ ~has_image_files(image_files)
    /\ pc' = "exit"
    /\ exit_code' = 1
    /\ UNCHANGED <<dateVars, annotateVars>>
    /\ UNCHANGED <<entry, argv, files, dirs, color, image_files, output_dir,
                   idx, success_count, reads, handed, results, written,
                   created, report>>

\* lines 141-145: os.makedirs(output_dir, exist_ok=True) is called outside
\* any try; it raises when a regular file has the name or when the directory
\* cannot be created, and the uncaught exception ends the process (code 1)
MakeOutputDir ==
    /\ entry = "main" /\ pc = "collected"
    /\ has_image_files(image_files)
    /\ LET out == output_dir_of(base_dir(image_files, argv.image_path))
       IN  /\ output_dir' = out
           /\ \/ /\ resolve(out) \in dirs
                 /\ pc' = "loop"
                 /\ UNCHANGED <<dirs, created, exit_code>>
              \/ /\ resolve(out) \notin dirs /\ resolve(out) \notin files
                 /\ dirs' = dirs \cup {resolve(out)}
                 /\ created' = created \cup {resolve(out)}
                 /\ pc' = "loop"
                 /\ UNCHANGED exit_code
              \/ /\ resolve(out) \notin dirs
                 /\ pc' = "crashed"
                 /\ exit_code' = 1
                 /\ UNCHANGED <<dirs, created>>
    /\ UNCHANGED <<dateVars, annotateVars>>
    /\ UNCHANGED <<entry, argv, files, color, image_files, idx,
                   success_count, reads, handed, results, written, report>>

\* lines 149-166, one iteration: get_capture_date and add_watermark catch
\* every exception, so the iteration ends with True or False; a save to a
\* path whose extension names no format fails
ProcessFile ==
    /\ entry = "main" /\ pc = "loop"
    /\ idx <= Len(image_files)
    /\ LET file_path == image_files[idx]
           output_path == output_path_of(output_dir, file_path)
       IN  /\ reads' = Append(reads, file_path)
           /\ handed' = Append(handed, [input |-> file_path,
                                         output |-> output_path])
           /\ \E ok \in BOOLEAN :
                /\ ok => save_format_known(output_path)
                /\ results' = Append(results, ok)
                /\ pc' = after_file(ok)
                /\ IF ok
                   THEN /\ files' = files \cup {output_path}
                        /\ written' = written \cup {output_path}
                        /\ success_count' = success_count + 1
                   ELSE UNCHANGED <<files, written, success_count>>
    /\ idx' = idx + 1
    /\ UNCHANGED <<dateVars, annotateVars>>
    /\ UNCHANGED <<entry, argv, dirs, color, image_files, output_dir,
                   created, report, exit_code>>

\* lines 168-170
Report ==
    /\ entry = "main" /\ pc = "loop"
    /\ idx > Len(image_files)
    /\ report' = <<success_count, Len(image_files)>>
    /\ pc' = "done"
    /\ exit_code' = 0
    /\ UNCHANGED <<dateVars, annotateVars>>
    /\ UNCHANGED <<entry, argv, files, dirs, color, image_files, output_dir,
                   idx, success_count, reads, handed, results, written,
                   created>>

NextMain ==
    \/ ParseArgs
    \/ CollectFiles
    \/ NoImageFiles
    \/ MakeOutputDir
    \/ ProcessFile
    \/ Report

------------------------------------------------------------------------------
(* get_capture_date *)

\* ExifTags.TAGS, the part the tables use
TAGS == [id \in {271, 306, 36867, 36868} |->
           CASE id = 271 -> "Make"
             [] id = 306 -> "DateTime"
             [] id = 36867 -> "DateTimeOriginal"
             [] id = 36868 -> "DateTimeDigitized"]

\* the tag ids a table may hold; 50000 has no name in TAGS
TagIds == {271, 306, 36867, 36868, 50000}

\* line 18
date_tags == <<"DateTimeOriginal", "DateTimeDigitized", "DateTime">>

\* lines 20-21: tag = ExifTags.TAGS.get(tag_id, tag_id); tag in date_tags
in_date_tags(tag_id) ==
    /\ tag_id \in DOMAIN TAGS
    /\ \E i \in DOMAIN date_tags : date_tags[i] = TAGS[tag_id]

\* a tag's value: a string "y<sep>m<sep>d HH:MM:SS", or not a string
StrValue(yy, mm, dd, sep) ==
    [type |-> "str", y |-> yy, m |-> mm, d |-> dd, sep |-> sep]

NonStrValue == [type |-> "int", y |-> 0, m |-> 0, d |-> 0, sep |-> ""]

\* the values a date tag may hold: two well-formed dates, a date written
\* with dashes, a month out of range, and a value that is no string
DateValues ==
    { StrValue(2023, 7, 4, ":"), StrValue(2021, 12, 25, ":"),
      StrValue(2023, 7, 4, "-"), StrValue(2023, 13, 4, ":"), NonStrValue }

OtherValue == [type |-> "str", y |-> 0, m |-> 0, d |-> 0, sep |-> ""]

\* datetime.strptime(date_str, "%Y:%m:%d %H:%M:%S"): TypeError for a value
\* that is no string, ValueError for a string that does not match
strptime(v) ==
    IF v.type # "str" THEN [raised |-> "TypeError", date |-> <<>>]
    ELSE IF v.sep = ":" /\ v.y \in 1..9999 /\ v.m \in 1..12 /\ v.d \in 1..31
    THEN [raised |-> "", date |-> <<v.y, v.m, v.d>>]
    ELSE [raised |-> "ValueError", date |-> <<>>]

\* .strftime("%Y-%m-%d")
strftime(date) == <<date[1], "-", date[2], "-", date[3]>>

\* the values a table may hold under tag id
values_for(id) == IF in_date_tags(id) THEN DateValues ELSE {OtherValue}

\* the tables that hold one more entry than t, under a tag id t lacks
Extend(t) ==
    UNION { {Append(t, [tag_id |-> id, value |-> v]) : v \in values_for(id)} :
              id \in TagIds \ {t[i].tag_id : i \in DOMAIN t} }

\* the EXIF tables of at most n entries: sequences of (tag id, value) with
\* distinct ids, in the order the table enumerates them
RECURSIVE Tables(_)
Tables(n) ==
    IF n = 0 THEN {<<>>}
    ELSE LET shorter == Tables(n - 1)
         IN  shorter \cup
             UNION {Extend(t) : t \in {u \in shorter : Len(u) = n - 1}}

InitDate ==
    /\ entry = "get_capture_date"
    /\ pc = "open"
    /\ \/ image = [opens |-> FALSE, exif |-> <<>>]
       \/ \E t \in Tables(MaxTags) : image = [opens |-> TRUE, exif |-> t]
    /\ scan = 1
    /\ date_ret = <<>>
    /\ warned = FALSE
    /\ MainIdle
    /\ AnnotateIdle

\* lines 11-15 and 28-30
OpenImage ==
    /\ entry = "get_capture_date" /\ pc = "open"
    /\ IF ~image.opens
       THEN /\ warned' = TRUE
            /\ pc' = "returned"
       ELSE IF image.exif = <<>>
       THEN /\ warned' = warned
            /\ pc' = "returned"
       ELSE /\ warned' = warned
            /\ pc' = "scan"
    /\ UNCHANGED <<entry, image, scan, date_ret, mainVars, annotateVars>>

\* what one iteration of the loop of lines 19-26 does with entry e
scan_step(e) ==
    IF ~in_date_tags(e.tag_id) THEN [to |-> "next", date |-> <<>>]
    ELSE LET r == strptime(e.value)
         IN  IF r.raised = "" THEN [to |-> "return", date |-> strftime(r.date)]
             ELSE IF r.raised = "ValueError" THEN [to |-> "next", date |-> <<>>]
             ELSE [to |-> "except", date |-> <<>>]

\* lines 19-26, one iteration; an exception that is no ValueError leaves the
\* loop for the handler of lines 28-30
ScanTag ==
    /\ entry = "get_capture_date" /\ pc = "scan"
    /\ scan <= Len(image.exif)
    /\ LET s == scan_step(image.exif[scan])
       IN  /\ date_ret' = s.date
           /\ pc' = IF s.to = "next" THEN "scan" ELSE "returned"
           /\ scan' = IF s.to = "next" THEN scan + 1 ELSE scan
           /\ warned' = (s.to = "except")
    /\ UNCHANGED <<entry, image, mainVars, annotateVars>>

\* line 27
ScanEnd ==
    /\ entry = "get_capture_date" /\ pc = "scan"
    /\ scan > Len(image.exif)
    /\ date_ret' = <<>>
    /\ pc' = "returned"
    /\ UNCHANGED <<entry, image, scan, warned, mainVars, annotateVars>>

NextDate ==
    \/ OpenImage
    \/ ScanTag
    \/ ScanEnd

------------------------------------------------------------------------------
(* add_watermark *)

\* line 72
padding == 10

\* line 87: how far the backing rectangle exceeds the text box
backing_margin == 2

\* a placement clamped to the image
positions_clamped(img_width, img_height, tw, th) ==
    LET max0(n) == IF n < 0 THEN 0 ELSE n
    IN  [p \in PositionChoices |->
           CASE p = "top_left" -> <<padding, padding>>
             [] p = "top_right" -> <<max0(img_width - tw - padding), padding>>
             [] p = "bottom_left" ->
                  <<padding, max0(img_height - th - padding)>>
             [] p = "bottom_right" ->
                  <<max0(img_width - tw - padding),
                    max0(img_height - th - padding)>>
             [] p = "center" ->
                  <<max0((img_width - tw) \div 2),
                    max0((img_height - th) \div 2)>>]

\* lines 75-81
positions(img_width, img_height, tw, th) ==
    [p \in PositionChoices |->
       CASE p = "top_left" -> <<padding, padding>>
         [] p = "top_right" -> <<img_width - tw - padding, padding>>
         [] p = "bottom_left" -> <<padding, img_height - th - padding>>
         [] p = "bottom_right" ->
              <<img_width - tw - padding, img_height - th - padding>>
         [] p = "center" ->
              <<(img_width - tw) \div 2, (img_height - th) \div 2>>]

\* a lookup that falls back to the first entry of the table
positions_get_top_left(table, pos) ==
    IF pos \in DOMAIN table THEN table[pos] ELSE table["top_left"]

\* line 83: positions.get(position, positions['bottom_right'])
positions_get(table, pos) ==
    IF pos \in DOMAIN table THEN table[pos] ELSE table["bottom_right"]

\* a backing rectangle that is the text box itself
rectangle_flush(ox, oy, tw, th) == <<ox, oy, ox + tw, oy + th>>

\* lines 86-87
rectangle(ox, oy, tw, th) ==
    <<ox - backing_margin, oy - backing_margin,
      ox + tw + backing_margin, oy + th + backing_margin>>

\* lines 38-43: the mode the drawing is done in
normalised_mode(mode) ==
    IF mode \in {"RGBA", "LA"} THEN "RGB"
    ELSE IF mode # "RGB" THEN "RGB"
    ELSE mode

PositionValues == PositionChoices \cup {"middle"}

ImageModes == {"RGB", "RGBA", "LA", "L"}

InitAnnotate ==
    /\ entry = "add_watermark"
    /\ pc = "call"
    /\ position \in PositionValues
    /\ img_size \in (1..MaxCanvas) \X (1..MaxCanvas)
    /\ img_mode = ""
    /\ font = ""
    /\ text_width = 0
    /\ text_height = 0
    /\ x = 0
    /\ y = 0
    /\ rect = <<>>
    /\ returned = "pending"
    /\ MainIdle
    /\ DateIdle

\* lines 35-36 and 95-97: the image does not decode
DecodeFails ==
    /\ entry = "add_watermark" /\ pc = "call"
    /\ returned' = "False"
    /\ pc' = "returned"
    /\ UNCHANGED <<entry, position, img_size, img_mode, font, text_width,
                   text_height, x, y, rect, mainVars, dateVars>>

\* lines 36-97 for an image that decodes: mode, font, measure, place, draw,
\* save; a failing save returns False
AddWatermark ==
    /\ entry = "add_watermark" /\ pc = "call"
    /\ \E mode \in ImageModes : img_mode' = normalised_mode(mode)
    /\ font' \in {"truetype", "default"}
    /\ text_width' \in 0..MaxText
    /\ text_height' \in 0..MaxText
    /\ LET o == positions_get(positions(img_size[1], img_size[2],
                                        text_width', text_height'), position)
       IN  /\ x' = o[1]
           /\ y' = o[2]
           /\ rect' = rectangle(o[1], o[2], text_width', text_height')
    /\ returned' \in {"True", "False"}
    /\ pc' = "returned"
    /\ UNCHANGED <<entry, position, img_size, mainVars, dateVars>>

NextAnnotate ==
    \/ DecodeFails
    \/ AddWatermark

------------------------------------------------------------------------------

Init == InitMain \/ InitDate \/ InitAnnotate

Next ==
    \/ ParseArgs
    \/ CollectFiles
    \/ NoImageFiles
    \/ MakeOutputDir
    \/ ProcessFile
    \/ Report
    \/ OpenImage
    \/ ScanTag
    \/ ScanEnd
    \/ DecodeFails
    \/ AddWatermark

Spec == Init /\ [][Next]_vars

------------------------------------------------------------------------------
(* Properties *)

Range(s) == {s[i] : i \in DOMAIN s}

RECURSIVE count_true(_)
count_true(s) ==
    IF s = <<>> THEN 0
    ELSE (IF s[1] THEN 1 ELSE 0) + count_true(SubSeq(s, 2, Len(s)))

\* the file names of the pool that are images by their extension
SupportedNames ==
    { <<"a", ".", "jpg">>, <<"a", ".", "PNG">>, <<"b", ".", "bmp">>,
      <<"a", "_watermark", ".", "jpg">>, <<".", "jpeg">> }

FiveAnchors ==
    {"top_left", "top_right", "bottom_left", "bottom_right", "center"}

\* the run was given a directory
GivenDirectory == entry = "main" /\ resolve(argv.image_path) \in dirs

\* the paths of the regular files with a supported extension under p
SupportedUnder(p) ==
    {q \in files : Len(q) = Len(p) + 1 /\ Front(q) = p
                   /\ Last(q) \in SupportedNames}

\* what a run on the current file system collects
Collectable ==
    IF isdir(dirs, argv.image_path)
    THEN {join(argv.image_path, n) :
            n \in candidate_names(files, dirs, argv.image_path)}
    ELSE IF /\ isfile(files, argv.image_path)
            /\ endswith_image_ext(basename(argv.image_path))
    THEN {argv.image_path}
    ELSE {}

\* C1: in a batch run every candidate is handed to add_watermark exactly
\* once and in discovery order, whatever the earlier files returned; the run
\* never ends between two files; the counter is the number of True results
\* and the report is that number over the number of candidates.
C1_EveryFileHandedOnce ==
    entry = "main" =>
        /\ Len(handed) = idx - 1
        /\ Len(results) = idx - 1
        /\ idx - 1 <= Len(image_files)
        /\ \A i \in DOMAIN handed : handed[i].input = image_files[i]
        /\ success_count = count_true(results)
        /\ (results # <<>> => pc \in {"loop", "done"})
        /\ (pc = "loop" /\ idx <= Len(image_files) => ENABLED ProcessFile)
        /\ (pc = "loop" /\ idx > Len(image_files) => ENABLED Report)
        /\ (pc = "done" =>
              /\ Len(handed) = Len(image_files)
              /\ report = <<count_true(results), Len(image_files)>>)

\* one failure among five, the failing file first: the report reads 4/5
C1_Witness ==
    /\ entry = "main" /\ pc = "done"
    /\ Len(image_files) = 5
    /\ results = <<FALSE, TRUE, TRUE, TRUE, TRUE>>
    /\ report = <<4, 5>>

\* C2: a run on a directory without any regular file of a supported
\* extension ends with a non-zero exit code, and never creates a directory,
\* reads a file for its date or annotates one.
C2_EmptyDirectoryExits ==
    (GivenDirectory /\ SupportedUnder(resolve(argv.image_path)) = {}) =>
        /\ pc \in {"parse_args", "collect", "collected", "exit", "crashed"}
        /\ (pc \in {"exit", "crashed"} => exit_code \in {1, 2})
        /\ (pc \notin {"exit", "crashed"} => ENABLED Next)
        /\ created = {}
        /\ written = {}
        /\ reads = <<>>
        /\ handed = <<>>

\* a directory that holds a text file and a subdirectory named like an
\* image, and nothing else: the run has exited with code 1
C2_Witness ==
    /\ GivenDirectory
    /\ argv.image_path = <<DirName>>
    /\ <<DirName, <<"a", ".", "txt">>>> \in files
    /\ <<DirName, <<"c", ".", "jpg">>>> \in dirs
    /\ SupportedUnder(<<DirName>>) = {}
    /\ <<DirName, <<"d", "_watermark">>>> \notin dirs
    /\ pc = "exit" /\ exit_code = 1

\* C3: once the path is valid and yields a candidate, no later step ends the
\* process abnormally: the exit code is never non-zero.
C3_NoAbnormalEnd ==
    (entry = "main" /\ image_files # <<>>) =>
        /\ pc # "crashed"
        /\ exit_code \in {-1, 0}

GoodValues == { StrValue(2023, 7, 4, ":"), StrValue(2021, 12, 25, ":") }

FormattedGood(v) == <<v.y, "-", v.m, "-", v.d>>

\* the entries of the table under a recognized tag, and those that parse
Recognized == {i \in DOMAIN image.exif :
                 image.exif[i].tag_id \in {306, 36867, 36868}}

Parseable == {i \in Recognized : image.exif[i].value \in GoodValues}

HasParseable(id) == \E i \in Parseable : image.exif[i].tag_id = id

ValueOf(id) ==
    image.exif[CHOOSE i \in Parseable : image.exif[i].tag_id = id].value

\* the date of the highest-priority tag that parses
ByPriority ==
    IF HasParseable(36867) THEN FormattedGood(ValueOf(36867))
    ELSE IF HasParseable(36868) THEN FormattedGood(ValueOf(36868))
    ELSE FormattedGood(ValueOf(306))

DateReturned ==
    entry = "get_capture_date" /\ pc = "returned" /\ image.opens

\* C5: with parseable values under more than one recognized tag, the date
\* returned is that of the highest-priority tag, whatever the order of the
\* table.  (Stated for tables whose recognized tags all hold strings, so
\* that the order of the table alone decides.)
C5_PriorityOrder ==
    (DateReturned /\ Cardinality(Parseable) >= 2
       /\ \A i \in Recognized : image.exif[i].value.type = "str") =>
        date_ret = ByPriority

\* C6: a recognized tag with a malformed value, a string or not, is skipped:
\* when some recognized tag holds a well-formed value, the date of such a
\* tag is returned and not None.
C6_MalformedSkipped ==
    (DateReturned /\ Parseable # {}) =>
        /\ date_ret # <<>>
        /\ \E i \in Parseable : date_ret = FormattedGood(image.exif[i].value)

Placed == entry = "add_watermark" /\ pc = "returned" /\ rect # <<>>

\* C7 as stated: the origin of every placement is non-negative.
C7_OriginNonNegative == Placed => x >= 0 /\ y >= 0

\* C7 amended: the origin is not clamped.  x is non-negative exactly when
\* the anchor is on the left, or is center and the text is no wider than the
\* image, or is on the right (bottom_right for an unknown anchor) and the
\* text plus the padding of 10 is no wider than the image; y likewise with
\* top, center, bottom and the heights.  So the origin is non-negative
\* whenever text plus padding fits the image in both directions.
C7_OriginSign ==
    Placed =>
        /\ x >= 0 <=>
             \/ position \in {"top_left", "bottom_left"}
             \/ position = "center" /\ text_width <= img_size[1]
             \/ position \notin {"top_left", "bottom_left", "center"}
                  /\ text_width + 10 <= img_size[1]
        /\ y >= 0 <=>
             \/ position \in {"top_left", "top_right"}
             \/ position = "center" /\ text_height <= img_size[2]
             \/ position \notin {"top_left", "top_right", "center"}
                  /\ text_height + 10 <= img_size[2]

\* text wider than the image, anchored right: the origin is left of it
C7_Witness ==
    /\ Placed /\ returned = "True"
    /\ position = "top_right"
    /\ text_width > img_size[1]
    /\ x < 0 /\ y >= 0

TextFits == text_width <= img_size[1] /\ text_height <= img_size[2]

\* C8 as stated: when the text fits the image, the backing rectangle
\* strictly contains the text box at the origin expanded by the padding of
\* 10 on all four sides.
C8_BackingContainsPadded ==
    (Placed /\ TextFits) =>
        /\ rect[1] < x - 10
        /\ rect[2] < y - 10
        /\ rect[3] > x + text_width + 10
        /\ rect[4] > y + text_height + 10

\* C8 amended: the backing rectangle is the text box at the origin expanded
\* by 2 on all four sides, so it strictly contains the text box; it does not
\* reach the padding of 10.
C8_BackingMargin ==
    Placed =>
        /\ rect = <<x - 2, y - 2, x + text_width + 2, y + text_height + 2>>
        /\ rect[1] < x /\ rect[2] < y
        /\ rect[3] > x + text_width /\ rect[4] > y + text_height

\* a text that fits with its padding, centred
C8_Witness ==
    /\ Placed /\ returned = "True"
    /\ position = "center"
    /\ text_width = 3 /\ text_height = 2
    /\ img_size = <<13, 13>>
    /\ rect = <<3, 3, 10, 9>>

\* the output name the convention gives the input name f
ExpectedName(f) ==
    SubSeq(f, 1, Len(f) - 2) \o <<"_watermark", ".", f[Len(f)]>>

\* C9: in a run on a directory, two different inputs never get the same
\* output path; when the run ends and every annotation returned True, the
\* report is N/N, N distinct files were written, and each is
\* <output_dir>/<stem>_watermark<ext> for its input's stem and extension.
C9_OneOutputPerInput ==
    GivenDirectory =>
        /\ \A i, j \in DOMAIN handed :
             i # j => handed[i].output # handed[j].output
        /\ (pc = "done" /\ \A i \in DOMAIN results : results[i]) =>
             /\ report = <<Len(image_files), Len(image_files)>>
             /\ Cardinality(written) = Len(image_files)
             /\ written = {handed[i].output : i \in DOMAIN handed}
             /\ written \subseteq files
             /\ \A i \in DOMAIN handed :
                  /\ dirname(handed[i].output) = output_dir
                  /\ basename(handed[i].output) =
                       ExpectedName(basename(handed[i].input))

\* four images, two of them with the same stem, all annotated
C9_Witness ==
    /\ GivenDirectory /\ pc = "done"
    /\ report = <<4, 4>>
    /\ <<DirName, <<"a", ".", "jpg">>>> \in Range(image_files)
    /\ <<DirName, <<"a", ".", "PNG">>>> \in Range(image_files)
    /\ Cardinality(written) = 4

\* C10: once a run has collected its candidates, it writes only in its
\* output directory, never to the path of a candidate, and what it writes
\* and creates is no candidate of a later run with the same argument: that
\* run collects the same files.
C10_InputsUntouched ==
    (entry = "main" /\ (pc \in {"collected", "loop", "done"}
                          \/ (pc = "crashed" /\ image_files # <<>>))) =>
        /\ \A i \in DOMAIN handed : handed[i].output \notin Range(image_files)
        /\ written \cap Range(image_files) = {}
        /\ \A w \in written : dirname(w) = output_dir
        /\ created \subseteq {output_dir}
        /\ Range(image_files) \subseteq files
        /\ Collectable = Range(image_files)

\* a run on a directory that wrote the output of a.jpg while the directory
\* holds a file named like that output
C10_Witness ==
    /\ GivenDirectory /\ pc = "done"
    /\ <<DirName, <<"a", "_watermark", ".", "jpg">>>> \in Range(image_files)
    /\ <<DirName, <<"d", "_watermark">>,
         <<"a", "_watermark", ".", "jpg">>>> \in written
    /\ created = {output_dir}

====
